---------------------------- MODULE Spec2Model ----------------------------
(***************************************************************************)
(* A model of the RemoteFs connector (src/src/connector.rs, config.rs,     *)
(* addr.rs): the per-host session cache, the configuration mutex, the      *)
(* planner and the executor.  Every caller-facing handler is a task that   *)
(* advances from one suspension point (lock acquisition, remote call) to   *)
(* the next; the pure parts (address decoding, mount matching, planning)   *)
(* are operators.                                                          *)
(*                                                                         *)
(* Two specifications share the handlers' steps:                           *)
(*   Spec     any task may call any handler at any time (concurrency);     *)
(*   SeqSpec  one caller drives get / plan / apply of the plan in list     *)
(*            order / get for one address, over many configurations.       *)
(***************************************************************************)
EXTENDS Naturals, Sequences, FiniteSets, TLC

(***************************************************************************)
(* Bounds of the model.                                                    *)
(***************************************************************************)
\* longest mount list a host of SeqSpec is configured with
MaxMounts == 2
\* how many handler calls the callers of Spec make in all
MaxCalls == 4
\* the latest remote call of an enumeration that may fail, counted from 0
MaxFailAt == 4

(***************************************************************************)
(* Option<T>: None is the empty sequence, Some(x) the one-element one.     *)
(***************************************************************************)
None == <<>>
Some(x) == <<x>>
IsSome(o) == o # <<>>
Unwrap(o) == o[1]

(***************************************************************************)
(* Paths are sequences of components, as std::path::Path::components()     *)
(* yields them; an absolute path starts with the root component "/".       *)
(***************************************************************************)
RootDir == "/"
is_absolute(path) == Len(path) > 0 /\ path[1] = RootDir
\* Path::starts_with: component-wise prefix
starts_with(path, base) ==
    /\ Len(base) <= Len(path)
    /\ \A i \in 1..Len(base) : path[i] = base[i]
\* Path::strip_prefix, used only where the prefix is known to match
strip_prefix(path, base) == SubSeq(path, Len(base) + 1, Len(path))
\* PathBuf::join: an absolute argument replaces the receiver
join(base, path) == IF is_absolute(path) THEN path ELSE base \o path

(***************************************************************************)
(* addr.rs: the address codec.                                             *)
(***************************************************************************)
\* ResourceAddress::to_path_buf for RemoteFsPath
to_path_buf(addr) ==
    LET path == IF is_absolute(addr.path) THEN strip_prefix(addr.path, <<RootDir>>)
                ELSE addr.path
    IN  join(join(<<"remotefs">>, <<addr.hostname>>), path)

\* Path::components(): empty segments and "." are normalised away, except a
\* "." that begins the path; ".." stays.  Path's == compares components.
is_normal_segment(segment) == segment \notin {"", "."}
normal_segments(path) == SelectSeq(path, is_normal_segment)
components(path) ==
    (IF starts_with(path, <<".">>) THEN <<".">> ELSE <<>>) \o normal_segments(path)

\* ResourceAddress::from_path for RemoteFsPath: None when the components are
\* not ["remotefs", hostname, ..]; the path is what strip_prefix leaves of
\* the components
from_path(p) ==
    LET path == IF is_absolute(p) THEN strip_prefix(p, <<RootDir>>) ELSE p
        \* the one outcome of the match on the collected components
        matched ==
            {IF Len(path_components) >= 2 /\ path_components[1] = "remotefs"
             THEN Some([hostname |-> path_components[2],
                        path |-> strip_prefix(path_components,
                                              <<"remotefs", path_components[2]>>)])
             ELSE None : path_components \in {components(path)}}
    IN  CHOOSE decoded \in matched : TRUE

(***************************************************************************)
(* config.rs: hooks, mounts, hosts.                                        *)
(***************************************************************************)
\* RemoteFsMount::path_matches_mount
path_matches_mount(mount, path) ==
    \/ /\ IsSome(mount.files)
       /\ \E i \in 1..Len(Unwrap(mount.files)) : path = Unwrap(mount.files)[i]
    \/ /\ IsSome(mount.dirs)
       /\ \E i \in 1..Len(Unwrap(mount.dirs)) : starts_with(path, Unwrap(mount.dirs)[i])


\* Vec::unwrap_or_default on an Option<Vec<_>>
unwrap_or_default(o) == IF IsSome(o) THEN Unwrap(o) ELSE <<>>

\* the scan without .rev(): the first of the first i mounts, in declaration
\* order, that matches
fwd_first_match(mounts, remote_path, i) ==
    LET at == {j \in 1..i : path_matches_mount(mounts[j], remote_path)}
    IN  IF at = {} THEN None
        ELSE Some(mounts[CHOOSE j \in at : \A k \in at : j <= k])

\* `for mount in mounts.iter().rev() { if mount.path_matches_mount(..) { ..; break } }`:
\* the scan of plan and of op_exec's Copy, from index i down; the mount it stops at
RECURSIVE rev_first_match(_, _, _)
rev_first_match(mounts, remote_path, i) ==
    IF i = 0 THEN None
    ELSE IF path_matches_mount(mounts[i], remote_path) THEN Some(mounts[i])
    ELSE rev_first_match(mounts, remote_path, i - 1)

governing_mount(mounts, remote_path) == rev_first_match(mounts, remote_path, Len(mounts))

(***************************************************************************)
(* connector.rs: results, operations, the planner.                         *)
(***************************************************************************)
\* exit: what the remote exec of a hook returned to op_exec, if it ran
Ok(v) == [tag |-> "Ok", value |-> v, exit |-> None]
Err(kind) == [tag |-> "Err", value |-> kind, exit |-> None]
Panic == [tag |-> "Panic", value |-> "unwrap on None", exit |-> None]
NoResult == [tag |-> "None", value |-> "", exit |-> None]

\* RemoteFsConnectorOp, with the message connector_op! attaches in plan
OpCopy == [kind |-> "Copy", hook |-> None]
OpDelete == [kind |-> "Delete", hook |-> None]
OpExec(hook) == [kind |-> "Exec", hook |-> Some(hook)]
connector_op(op, message) == [op |-> op, message |-> message]

\* ConnectorOp::to_string: the op in RON; serde leaves a hook's ignore_error
\* out when it is false (skip_serializing_if)
op_to_string(op) ==
    [kind |-> op.kind,
     hook |-> IF IsSome(op.hook)
              THEN Some([work_dir |-> Unwrap(op.hook).work_dir, shell |-> Unwrap(op.hook).shell,
                         ignore_error |-> IF Unwrap(op.hook).ignore_error THEN Some(TRUE)
                                          ELSE None])
              ELSE None]
\* a string that is no RON of a RemoteFsConnectorOp
Garbage == [kind |-> "garbage", hook |-> None]
\* ConnectorOp::from_str: None when ron::from_str fails; a missing
\* ignore_error is false (serde default)
op_from_str(str) ==
    IF str.kind \notin {"Copy", "Delete", "Exec"} THEN None
    ELSE Some([kind |-> str.kind,
               hook |-> IF IsSome(str.hook)
                        THEN Some([work_dir |-> Unwrap(str.hook).work_dir,
                                   shell |-> Unwrap(str.hook).shell,
                                   ignore_error |-> IF IsSome(Unwrap(str.hook).ignore_error)
                                                    THEN Unwrap(Unwrap(str.hook).ignore_error)
                                                    ELSE FALSE])
                        ELSE None])

exec_ops(hooks) == [i \in 1..Len(hooks) |-> connector_op(OpExec(hooks[i]), "Execute hook")]

\* a planner that compares the bytes: nothing to do when current and desired
\* are equal
plan_diff_core(res, current, desired, post) ==
    IF current = desired THEN <<>>
    ELSE IF ~IsSome(desired)
         THEN Append(res, connector_op(OpDelete, "Delete remote file")) \o post
    ELSE Append(res, connector_op(OpCopy, "Write remote file")) \o post

\* a planner that pushes the post-hooks before the core op
plan_hooks_first_core(res, current, desired, post) ==
    IF ~IsSome(current) /\ ~IsSome(desired) THEN <<>>
    ELSE IF ~IsSome(desired)
         THEN Append(res \o post, connector_op(OpDelete, "Delete remote file"))
    ELSE Append(res \o post, connector_op(OpCopy, "Write remote file"))

\* a planner that keeps the hooks when there is nothing to write or delete
plan_hooks_only_core(res, current, desired, post) ==
    IF ~IsSome(current) /\ ~IsSome(desired) THEN res \o post
    ELSE IF ~IsSome(desired)
         THEN Append(res, connector_op(OpDelete, "Delete remote file")) \o post
    ELSE Append(res, connector_op(OpCopy, "Write remote file")) \o post

\* the match on (current, desired) of plan, given the ops pushed so far
plan_core(res, current, desired, post) ==
    IF ~IsSome(current) /\ ~IsSome(desired) THEN <<>>
    ELSE IF IsSome(current) /\ ~IsSome(desired)
         THEN Append(res, connector_op(OpDelete, "Delete remote file")) \o post
    ELSE IF IsSome(current) /\ IsSome(desired)
         THEN Append(res, connector_op(OpCopy, "Modify remote file")) \o post
    ELSE Append(res, connector_op(OpCopy, "Create new remote file")) \o post

\* RemoteFsConnector::plan, once the configuration mutex is held
plan(cfg, addr, current, desired) ==
    LET decoded == from_path(addr) IN
    IF ~IsSome(decoded) THEN Err("AddressError")
    ELSE
    LET a == Unwrap(decoded)
        remote_path == join(<<RootDir>>, a.path)
    IN  IF a.hostname \notin DOMAIN cfg.hosts THEN Ok(<<>>)
        ELSE
        LET mount == governing_mount(cfg.hosts[a.hostname].mounts, remote_path)
            pre_hooks == IF IsSome(mount) THEN unwrap_or_default(Unwrap(mount).pre_hooks)
                         ELSE <<>>
            post_hooks == IF IsSome(mount) THEN unwrap_or_default(Unwrap(mount).post_hooks)
                          ELSE <<>>
        IN  Ok(plan_core(exec_ops(pre_hooks), current, desired, exec_ops(post_hooks)))

\* the Metadata op_exec's Copy passes to create: the overrides of the mount
\* the reverse scan stops at, none when it stops at no mount
copy_metadata(mounts, remote_path, size) ==
    LET mount == governing_mount(mounts, remote_path) IN
    IF IsSome(mount)
    THEN [uid |-> Unwrap(mount).uid, gid |-> Unwrap(mount).gid,
          mode |-> Unwrap(mount).mode, size |-> size]
    ELSE [uid |-> None, gid |-> None, mode |-> None, size |-> size]

\* RemoteFsConnector::filter, once the configuration mutex is held
filter(cfg, addr) ==
    LET decoded == from_path(addr) IN
    IF IsSome(decoded) /\ Unwrap(decoded).hostname \in DOMAIN cfg.hosts
    THEN Ok("Resource") ELSE Ok("None")

(***************************************************************************)
(* The world the connector runs in.                                        *)
(***************************************************************************)
\* the tasks of the caller (the tokio runtime is multi-threaded: tasks
\* interleave at every step, not only at awaits)
Tasks == {"t1", "t2"}
NoTask == "none"

Hostnames == {"X", "Y"}

\* handles of ScpFs sessions (the Arc<Mutex<ScpFs>> values); a session no
\* cache entry and no task refers to is dropped
SessionIds == {"s1", "s2", "s3", "s4"}
NoSession == "none"
DeadSession == [host |-> "", params |-> "", cwd |-> <<>>, owner |-> NoTask,
                pre_clear |-> FALSE, pre_swap |-> FALSE]

\* remote paths, relative to the remote root
RelPaths == {<<"etc", "motd">>, <<"etc", "cron", "daily">>, <<"var", "x">>}
RemotePaths == {join(<<RootDir>>, r) : r \in RelPaths}
LogicalPaths == {to_path_buf([hostname |-> h, path |-> r]) : h \in Hostnames, r \in RelPaths}
\* a logical path of another connector's namespace
ForeignAddr == <<"aws", "X", "etc", "motd">>

\* file contents are byte strings
Bytes1 == <<1>>
Bytes2 == <<2>>
HomeDir == <<RootDir, "home">>
SrvDir == <<RootDir, "srv">>

\* hooks (RemoteFsHook); the shell command "true" exits 0, any other exits 1
HookTrue == [work_dir |-> None, shell |-> "true", ignore_error |-> FALSE]
HookFalseIn == [work_dir |-> Some(SrvDir), shell |-> "false", ignore_error |-> FALSE]
HookFalseIgn == [work_dir |-> None, shell |-> "false", ignore_error |-> TRUE]
Hooks == {HookTrue, HookFalseIn, HookFalseIgn}
exit_status(shell) == IF shell = "true" THEN "zero" ELSE "nonzero"

VARIABLES
    config,         \* RemoteFsConnector.config: the value inside the Mutex
    config_lock,    \* the task holding the configuration mutex, or NoTask
    client_cache,   \* RemoteFsConnector.client_cache: hostname -> session handle
    session,        \* the sessions: host, connection parameters, working directory,
                    \* the task holding the session's mutex, and two history flags
    remote,         \* the remote filesystems: hostname -> path -> Option<file>
    local,          \* the local source files under prefix: logical path -> Option<bytes>
    pc,             \* where each task is in the handler it called
    call,           \* the arguments of the handler each task called last
    frame,          \* the locals of the handler each task is in
    result,         \* what the handler each task called last returned
    script,         \* the single caller of SeqSpec (what it plans and applies, and how
                    \* far it is), of CodecSpec (what it encodes and decodes) and of
                    \* ListSpec (what it lists)
    calls           \* how many handler calls have been made

vars == <<config, config_lock, client_cache, session, remote, local,
          pc, call, frame, result, script, calls>>

\* op: the op string op_exec is given; cfg_file: Some(body) when
\* remotefs/config.ron is a file, None when it is missing
NoCall == [fn |-> "none", addr |-> <<>>, op |-> Garbage, current |-> None, desired |-> None,
           cfg_file |-> None]
EmptyConfig == [hosts |-> [h \in {} |-> <<>>]]
\* a config.ron whose body is no RON of a RemoteFsConfig
Unparsable == [garbage |-> "}"]
\* RON.from_str(&cfg_body) in init: None when the body does not parse
ron_from_str(cfg_body) == IF "hosts" \in DOMAIN cfg_body THEN Some(cfg_body) ELSE None
NoFrame == [hostname |-> "", path |-> <<>>, client |-> NoSession, params |-> "",
            metadata |-> None, old_workdir |-> None, new_config |-> EmptyConfig,
            snapshot |-> EmptyConfig, todo |-> {}, results |-> <<>>,
            exit |-> None, pre_swap |-> FALSE]
NoScript == [stage |-> "off", cfg_file |-> None, addr |-> <<>>, current |-> None,
             desired |-> None, plan |-> <<>>, idx |-> 1, final |-> NoResult,
             source |-> None, globs |-> None, left |-> None]

\* a session is live while the cache or a task's frame holds its handle
Referenced(cache, frames) ==
    {cache[h] : h \in Hostnames} \cup {frames[t].client : t \in Tasks}
\* dropping the last Arc of a session drops the session
Collect(sess, cache, frames) ==
    [s \in SessionIds |-> IF s \in Referenced(cache, frames) THEN sess[s] ELSE DeadSession]
\* dropping task t's MutexGuard of a session
Unlocked(sess, t) ==
    [s \in SessionIds |-> IF sess[s].owner = t THEN [sess[s] EXCEPT !.owner = NoTask]
                          ELSE sess[s]]
FreshSession == CHOOSE s \in SessionIds : session[s] = DeadSession

(***************************************************************************)
(* Leaving and entering a handler.                                         *)
(***************************************************************************)
\* a return that takes its MutexGuards along instead of dropping them
FinishKeepingGuards(t, res, sess, cache) ==
    /\ pc' = [pc EXCEPT ![t] = "idle"]
    /\ frame' = [frame EXCEPT ![t] = NoFrame]
    /\ result' = [result EXCEPT ![t] = res]
    /\ client_cache' = cache
    /\ session' = Collect(sess, cache, frame')
    /\ UNCHANGED <<config_lock, call, local, calls>>

\* task t returns res (or unwinds): its locals are dropped, and with them the
\* MutexGuards and the Arc it holds; sess and cache are the sessions and the
\* cache as the returning step leaves them
Finish(t, res, sess, cache) ==
    /\ pc' = [pc EXCEPT ![t] = "idle"]
    /\ frame' = [frame EXCEPT ![t] = NoFrame]
    /\ result' = [result EXCEPT ![t] = res]
    /\ config_lock' = IF config_lock = t THEN NoTask ELSE config_lock
    /\ client_cache' = cache
    /\ session' = Collect(Unlocked(sess, t), cache, frame')
    /\ UNCHANGED <<call, local, calls>>

\* task t moves on to label with locals fr, touching no shared state
Goto(t, label, fr) ==
    /\ pc' = [pc EXCEPT ![t] = label]
    /\ frame' = [frame EXCEPT ![t] = fr]
    /\ UNCHANGED <<config, config_lock, client_cache, session, remote, local, call, result,
                   calls>>

\* what a handler does before its first suspension point: ret is Some(result)
\* when it returns at once
entry(c) ==
    LET decoded == from_path(c.addr)
        at(label) == [ret |-> None, pc |-> label,
                      frame |-> [NoFrame EXCEPT !.hostname = Unwrap(decoded).hostname,
                                                !.path = Unwrap(decoded).path]]
    IN  CASE c.fn = "get" ->
                IF IsSome(decoded) THEN at("gc_contains")
                ELSE [ret |-> Some(Err("AddressError")), pc |-> "idle", frame |-> NoFrame]
          [] c.fn = "op_exec" ->
                IF ~IsSome(op_from_str(c.op))
                THEN [ret |-> Some(Err("ParseError")), pc |-> "idle", frame |-> NoFrame]
                ELSE IF ~IsSome(decoded)
                THEN [ret |-> Some(Err("AddressError")), pc |-> "idle", frame |-> NoFrame]
                ELSE at("op_lock")
          [] c.fn = "init" ->
                IF ~IsSome(c.cfg_file)
                THEN [ret |-> Some(Err("ConfigError")), pc |-> "idle", frame |-> NoFrame]
                ELSE IF ~IsSome(ron_from_str(Unwrap(c.cfg_file)))
                THEN [ret |-> Some(Err("ParseError")), pc |-> "idle", frame |-> NoFrame]
                ELSE [ret |-> None, pc |-> "init_clear",
                      frame |-> [NoFrame EXCEPT
                                    !.new_config = Unwrap(ron_from_str(Unwrap(c.cfg_file)))]]
          [] c.fn = "plan" -> [ret |-> None, pc |-> "plan_lock", frame |-> NoFrame]
          [] c.fn = "filter" -> [ret |-> None, pc |-> "filter_lock", frame |-> NoFrame]
          [] c.fn = "list" -> [ret |-> None, pc |-> "list_lock", frame |-> NoFrame]

\* task t calls a handler with arguments c
Invoke(t, c) ==
    /\ pc[t] = "idle"
    /\ call' = [call EXCEPT ![t] = c]
    /\ \E e \in {entry(call'[t])} :
        /\ pc' = [pc EXCEPT ![t] = e.pc]
        /\ frame' = [frame EXCEPT ![t] = e.frame]
        /\ result' = [result EXCEPT ![t] = IF IsSome(e.ret) THEN Unwrap(e.ret) ELSE NoResult]
    /\ calls' = calls + 1
    /\ UNCHANGED <<config, config_lock, client_cache, session, remote, local>>

(***************************************************************************)
(* RemoteFsConnector::get_client, inlined in its callers (get, list,       *)
(* op_exec); every caller locks the client it returns next.                *)
(***************************************************************************)
\* line 100: client_cache.contains_key(hostname)
GcContains(t) ==
    /\ pc[t] = "gc_contains"
    /\ Goto(t, IF client_cache[frame[t].hostname] # NoSession THEN "gc_get" ELSE "gc_lock",
            frame[t])
    /\ UNCHANGED script

\* lines 101-102: client_cache.get(hostname).unwrap().clone()
GcGet(t) ==
    /\ pc[t] = "gc_get"
    /\ IF client_cache[frame[t].hostname] # NoSession
       THEN /\ Goto(t, "client_lock",
                    [frame[t] EXCEPT !.client = client_cache[frame[t].hostname]])
       ELSE /\ Finish(t, Panic, session, client_cache)
            /\ UNCHANGED <<config, remote>>
    /\ UNCHANGED script

\* lines 104-119: config.lock().await, the host's lookup, the SshOpts.  A task
\* that holds the configuration mutex itself waits here for ever.
GcLock(t) ==
    /\ pc[t] = "gc_lock"
    /\ config_lock = NoTask
    /\ IF frame[t].hostname \in DOMAIN config.hosts
       THEN /\ pc' = [pc EXCEPT ![t] = "gc_connect"]
            /\ frame' = [frame EXCEPT ![t].params = config.hosts[frame[t].hostname].params]
            /\ config_lock' = t
            /\ UNCHANGED <<config, client_cache, session, remote, local, call, result, calls>>
       ELSE /\ Finish(t, Err("ConfigError"), session, client_cache)
            /\ UNCHANGED <<config, remote>>
    /\ UNCHANGED script

\* a get_client that caches the client before it connects
GcInsertThenConnect(t) ==
    /\ pc[t] = "gc_connect"
    /\ LET inserted == [client_cache EXCEPT ![frame[t].hostname] = FreshSession]
           made == [session EXCEPT ![FreshSession] =
                        [host |-> frame[t].hostname, params |-> frame[t].params,
                         cwd |-> HomeDir, owner |-> NoTask,
                         pre_clear |-> FALSE, pre_swap |-> FALSE]]
       IN  \E ok \in BOOLEAN :
            IF ok
            THEN /\ pc' = [pc EXCEPT ![t] = "gc_reget"]
                 /\ client_cache' = inserted
                 /\ session' = Collect(made, inserted, frame)
                 /\ UNCHANGED <<config, config_lock, remote, local, call, frame, result, calls>>
            ELSE /\ Finish(t, Err("TransportError"), made, inserted)
                 /\ UNCHANGED <<config, remote>>
    /\ UNCHANGED script

\* lines 121-125: client.connect()?, then client_cache.insert
GcConnect(t) ==
    /\ pc[t] = "gc_connect"
    /\ \E ok \in BOOLEAN :
        IF ok
        THEN /\ pc' = [pc EXCEPT ![t] = "gc_reget"]
             /\ client_cache' = [client_cache EXCEPT ![frame[t].hostname] = FreshSession]
             /\ session' = Collect([session EXCEPT ![FreshSession] =
                                        [host |-> frame[t].hostname, params |-> frame[t].params,
                                         cwd |-> HomeDir, owner |-> NoTask,
                                         pre_clear |-> FALSE, pre_swap |-> FALSE]],
                                   client_cache', frame)
             /\ UNCHANGED <<config, config_lock, remote, local, call, frame, result, calls>>
        ELSE /\ Finish(t, Err("TransportError"), session, client_cache)
             /\ UNCHANGED <<config, remote>>
    /\ UNCHANGED script

\* lines 127-129: client_cache.get(hostname).unwrap().clone(); the guard of
\* the configuration mutex is dropped on return
GcReget(t) ==
    /\ pc[t] = "gc_reget"
    /\ IF client_cache[frame[t].hostname] # NoSession
       THEN /\ pc' = [pc EXCEPT ![t] = "client_lock"]
            /\ frame' = [frame EXCEPT ![t].client = client_cache[frame[t].hostname]]
            /\ config_lock' = NoTask
            /\ UNCHANGED <<config, client_cache, session, remote, local, call, result, calls>>
       ELSE /\ Finish(t, Panic, session, client_cache)
            /\ UNCHANGED <<config, remote>>
    /\ UNCHANGED script

(***************************************************************************)
(* The remote transport (remotefs::RemoteFs of ScpFs) and the local files, *)
(* as the handlers use them.                                               *)
(***************************************************************************)
remote_file(fs, path) == IF path \in DOMAIN fs THEN fs[path] ELSE None
\* a directory exists while a file lies below it
is_dir(fs, path) ==
    \E f \in DOMAIN fs : IsSome(fs[f]) /\ starts_with(f, path) /\ f # path
exists(fs, path) == IsSome(remote_file(fs, path)) \/ is_dir(fs, path)
local_file(files, logical_path) ==
    IF logical_path \in DOMAIN files THEN files[logical_path] ELSE None

RECURSIVE SetToSeq(_)
SetToSeq(S) ==
    IF S = {} THEN <<>>
    ELSE LET x == CHOOSE y \in S : TRUE IN <<x>> \o SetToSeq(S \ {x})

\* client.list_dir(dir): the entries of a directory, files and directories
list_dir(fs, dir) ==
    {SubSeq(f, 1, Len(dir) + 1) :
        f \in {g \in DOMAIN fs : IsSome(fs[g]) /\ starts_with(g, dir) /\ g # dir}}

\* where an enumeration's transport may fail: nowhere, or at its n-th call
FailPoints == {None} \cup {Some(n) : n \in 0..MaxFailAt}

\* How far the transport goes: left is None when no remote call fails, and
\* Some(n) when n more remote calls return before one fails.
answers(left) == ~IsSome(left) \/ Unwrap(left) > 0
after_call(left) == IF IsSome(left) THEN Some(Unwrap(left) - 1) ELSE left

\* An enumeration under way: what it has collected, the remote calls it has
\* made (log), and whether one of them failed (tag).
StartRun(left) == [tag |-> "Ok", files |-> <<>>, log |-> <<>>, left |-> left]
\* one remote call `client.<name>(path)?`
remote_call(run, name, path) ==
    IF answers(run.left)
    THEN [run EXCEPT !.log = Append(@, <<name, path>>), !.left = after_call(@)]
    ELSE [run EXCEPT !.tag = "Err", !.log = Append(@, <<name, path>>)]

\* RemoteFsConnector::matches_any_globs; a glob "<dir>/**/*" is the directory
\* it matches below
matches_any_globs(path, globs) ==
    globs = <<>> \/ \E i \in 1..Len(globs) : starts_with(path, globs[i])

RECURSIVE list_recursive(_, _, _, _)
RECURSIVE list_entries(_, _, _, _, _)

\* an enumerator that lists a directory without asking whether it exists
list_recursive_unchecked(fs, dir, globs, run) ==
    LET listing == remote_call(run, "list_dir", dir) IN
    IF listing.tag = "Err" THEN listing
    ELSE list_entries(fs, SetToSeq(list_dir(fs, dir)), globs, 1, listing)

\* RemoteFsConnector::list_recursive (lines 150-172): run is the enumeration
\* so far, the files found are appended to it; globs is not looked at
list_recursive(fs, dir, globs, run) ==
    LET checked == remote_call(run, "exists", dir) IN
    IF checked.tag = "Err" \/ ~exists(fs, dir) THEN checked
    ELSE LET listing == remote_call(checked, "list_dir", dir) IN
         IF listing.tag = "Err" THEN listing
         ELSE list_entries(fs, SetToSeq(list_dir(fs, dir)), globs, 1, listing)

\* a loop that pushes only the files the globs match
RECURSIVE list_entries_globbed(_, _, _, _, _)
list_entries_globbed(fs, entries, globs, i, run) ==
    IF i > Len(entries) THEN run
    ELSE IF is_dir(fs, entries[i])
    THEN LET sub == list_recursive(fs, entries[i], globs, run) IN
         IF sub.tag = "Err" THEN sub
         ELSE list_entries_globbed(fs, entries, globs, i + 1, sub)
    ELSE list_entries_globbed(fs, entries, globs, i + 1,
            IF IsSome(globs) /\ ~matches_any_globs(entries[i], Unwrap(globs)) THEN run
            ELSE [run EXCEPT !.files = Append(@, entries[i])])

\* a loop that goes on after a subdirectory failed
RECURSIVE list_entries_lenient(_, _, _, _, _)
list_entries_lenient(fs, entries, globs, i, run) ==
    IF i > Len(entries) THEN run
    ELSE IF is_dir(fs, entries[i])
    THEN LET sub == list_recursive(fs, entries[i], globs, run) IN
         list_entries_lenient(fs, entries, globs, i + 1,
            IF sub.tag = "Err" THEN [run EXCEPT !.log = sub.log, !.left = sub.left] ELSE sub)
    ELSE list_entries_lenient(fs, entries, globs, i + 1,
            [run EXCEPT !.files = Append(@, entries[i])])

\* the loop of list_recursive over the entries of a directory (lines 158-168)
list_entries(fs, entries, globs, i, run) ==
    IF i > Len(entries) THEN run
    ELSE IF is_dir(fs, entries[i])
    THEN LET sub == list_recursive(fs, entries[i], globs, run) IN
         IF sub.tag = "Err" THEN sub
         ELSE list_entries(fs, entries, globs, i + 1, sub)
    ELSE list_entries(fs, entries, globs, i + 1,
            [run EXCEPT !.files = Append(@, entries[i])])

\* the logical path list pushes for a remote path (lines 251-256, 263-268)
listed(hostname, path) ==
    join(join(<<"remotefs">>, <<hostname>>),
         IF is_absolute(path) THEN strip_prefix(path, <<RootDir>>) ELSE path)

\* list, lines 247-259: the directories of a mount
RECURSIVE list_dirs(_, _, _, _, _, _)
list_dirs(fs, hostname, dirs, globs, i, run) ==
    IF i > Len(dirs) \/ run.tag = "Err" THEN run
    ELSE LET listing == list_recursive(fs, dirs[i], globs, [run EXCEPT !.files = <<>>])
         IN  list_dirs(fs, hostname, dirs, globs, i + 1,
                [listing EXCEPT !.files =
                    run.files \o [k \in 1..Len(listing.files) |->
                                    listed(hostname, listing.files[k])]])

\* list, lines 260-271: the files of a mount, through remote_file_exists
\* (lines 174-180)
RECURSIVE list_files(_, _, _, _, _)
list_files(fs, hostname, files, i, run) ==
    IF i > Len(files) \/ run.tag = "Err" THEN run
    ELSE LET checked == remote_call(run, "exists", files[i])
         IN  list_files(fs, hostname, files, i + 1,
                IF checked.tag = "Ok" /\ exists(fs, files[i])
                THEN [checked EXCEPT !.files = Append(@, listed(hostname, files[i]))]
                ELSE checked)

\* the body of list's loop over one host's mounts (lines 246-273)
RECURSIVE list_mounts(_, _, _, _, _)
list_mounts(fs, hostname, mounts, i, run) ==
    IF i > Len(mounts) \/ run.tag = "Err" THEN run
    ELSE LET from_dirs == IF IsSome(mounts[i].dirs)
                          THEN list_dirs(fs, hostname, Unwrap(mounts[i].dirs),
                                         mounts[i].globs, 1, run)
                          ELSE run
             from_files == IF IsSome(mounts[i].files)
                           THEN list_files(fs, hostname, Unwrap(mounts[i].files), 1, from_dirs)
                           ELSE from_dirs
         IN  list_mounts(fs, hostname, mounts, i + 1, from_files)

(***************************************************************************)
(* The handlers' steps after get_client.                                   *)
(***************************************************************************)
CallOp(t) == Unwrap(op_from_str(call[t].op))
RemotePath(t) == join(<<RootDir>>, frame[t].path)
LocalPath(t) == to_path_buf([hostname |-> frame[t].hostname, path |-> frame[t].path])
WithFile(t, file) ==
    [remote EXCEPT ![frame[t].hostname] =
        [p \in DOMAIN @ \cup {RemotePath(t)} |-> IF p = RemotePath(t) THEN file ELSE @[p]]]

\* client.lock().await in get (284), list (244) and op_exec (384, 446, 458);
\* for Copy, on to the create call (387-410)
ClientLock(t) ==
    /\ pc[t] = "client_lock"
    /\ session[frame[t].client].owner = NoTask
    /\ LET locked == [session EXCEPT ![frame[t].client].owner = t]
           op == CallOp(t)
       IN  CASE call[t].fn = "get" ->
                 /\ session' = locked
                 /\ pc' = [pc EXCEPT ![t] = "get_exists"]
                 /\ UNCHANGED <<frame, config_lock, client_cache, result, call, local, calls>>
             [] call[t].fn = "list" ->
                 /\ session' = locked
                 /\ pc' = [pc EXCEPT ![t] = "list_scan"]
                 /\ UNCHANGED <<frame, config_lock, client_cache, result, call, local, calls>>
             [] call[t].fn = "op_exec" /\ op.kind = "Copy" ->
                 IF frame[t].hostname \notin DOMAIN config.hosts
                 THEN Finish(t, Err("ConfigError"), locked, client_cache)
                 ELSE IF ~IsSome(local_file(local, LocalPath(t)))
                 THEN Finish(t, Err("LocalIoError"), locked, client_cache)
                 ELSE /\ session' = locked
                      /\ pc' = [pc EXCEPT ![t] = "copy_create"]
                      /\ frame' = [frame EXCEPT ![t].metadata =
                            Some(copy_metadata(config.hosts[frame[t].hostname].mounts,
                                               RemotePath(t),
                                               Len(Unwrap(local_file(local, LocalPath(t))))))]
                      /\ UNCHANGED <<config_lock, client_cache, result, call, local, calls>>
             [] call[t].fn = "op_exec" /\ op.kind = "Delete" ->
                 /\ session' = locked
                 /\ pc' = [pc EXCEPT ![t] = "delete_remove"]
                 /\ UNCHANGED <<frame, config_lock, client_cache, result, call, local, calls>>
             [] call[t].fn = "op_exec" /\ op.kind = "Exec" ->
                 /\ session' = locked
                 /\ pc' = [pc EXCEPT ![t] =
                        IF IsSome(Unwrap(op.hook).work_dir) THEN "exec_pwd" ELSE "exec_run"]
                 /\ UNCHANGED <<frame, config_lock, client_cache, result, call, local, calls>>
    /\ UNCHANGED <<config, remote, script>>

\* get, line 285: client.exists(&remote_path)?
GetExists(t) ==
    /\ pc[t] = "get_exists"
    /\ \E ok \in BOOLEAN :
        IF ~ok THEN Finish(t, Err("TransportError"), session, client_cache)
        ELSE IF exists(remote[frame[t].hostname], RemotePath(t))
        THEN Goto(t, "get_open", frame[t])
        ELSE Finish(t, Ok(None), session, client_cache)
    /\ UNCHANGED <<config, remote, script>>

\* get, lines 286-291: client.open(&remote_path)?, read_to_end
GetOpen(t) ==
    /\ pc[t] = "get_open"
    /\ \E ok \in BOOLEAN :
        IF ok /\ IsSome(remote_file(remote[frame[t].hostname], RemotePath(t)))
        THEN Finish(t, Ok(Some(Unwrap(remote_file(remote[frame[t].hostname],
                                                  RemotePath(t))).contents)),
                    session, client_cache)
        ELSE Finish(t, Err("TransportError"), session, client_cache)
    /\ UNCHANGED <<config, remote, script>>

\* op_exec, line 368: config.lock().await; the guard lives to the end of op_exec
OpLock(t) ==
    /\ pc[t] = "op_lock"
    /\ config_lock = NoTask
    /\ config_lock' = t
    /\ pc' = [pc EXCEPT ![t] = "gc_contains"]
    /\ UNCHANGED <<config, client_cache, session, remote, local, call, frame, result, script, calls>>

\* Copy, lines 410-411 (433-434): client.create(&remote_path, &metadata)?; the
\* remote file exists, empty, from here; then the local file is read
CopyCreate(t) ==
    /\ pc[t] = "copy_create"
    /\ \E ok \in BOOLEAN :
        IF ok
        THEN /\ remote' = WithFile(t, Some([contents |-> <<>>,
                                            uid |-> Unwrap(frame[t].metadata).uid,
                                            gid |-> Unwrap(frame[t].metadata).gid,
                                            mode |-> Unwrap(frame[t].metadata).mode]))
             /\ pc' = [pc EXCEPT ![t] = "copy_write"]
             /\ UNCHANGED <<config_lock, client_cache, session, local, call, frame, result, calls>>
        ELSE /\ Finish(t, Err("TransportError"), session, client_cache)
             /\ UNCHANGED remote
    /\ UNCHANGED <<config, script>>

\* Copy, lines 412-417 (435-441): stream.write_all(&buf)?
CopyWrite(t) ==
    /\ pc[t] = "copy_write"
    /\ \E ok \in BOOLEAN :
        IF ok
        THEN /\ remote' = WithFile(t, Some([contents |-> Unwrap(local_file(local, LocalPath(t))),
                                            uid |-> Unwrap(frame[t].metadata).uid,
                                            gid |-> Unwrap(frame[t].metadata).gid,
                                            mode |-> Unwrap(frame[t].metadata).mode]))
             /\ Finish(t, Ok("Wrote remote file"), session, client_cache)
        ELSE /\ Finish(t, Err("TransportError"), session, client_cache)
             /\ UNCHANGED remote
    /\ UNCHANGED <<config, script>>

\* Delete, lines 448-454: client.remove_file(&remote_path)?
DeleteRemove(t) ==
    /\ pc[t] = "delete_remove"
    /\ \E ok \in BOOLEAN :
        IF ok /\ IsSome(remote_file(remote[frame[t].hostname], RemotePath(t)))
        THEN /\ remote' = WithFile(t, None)
             /\ Finish(t, Ok("Deleted remote file"), session, client_cache)
        ELSE /\ Finish(t, Err("TransportError"), session, client_cache)
             /\ UNCHANGED remote
    /\ UNCHANGED <<config, script>>

\* Exec, line 461: client.pwd()?
ExecPwd(t) ==
    /\ pc[t] = "exec_pwd"
    /\ \E ok \in BOOLEAN :
        IF ok
        THEN Goto(t, "exec_cd",
                  [frame[t] EXCEPT !.old_workdir = Some(session[frame[t].client].cwd)])
        ELSE /\ Finish(t, Err("TransportError"), session, client_cache)
             /\ UNCHANGED <<config, remote>>
    /\ UNCHANGED script

\* Exec, line 462: client.change_dir(&work_dir)?
ExecCd(t) ==
    /\ pc[t] = "exec_cd"
    /\ \E ok \in BOOLEAN :
        IF ok
        THEN /\ session' = [session EXCEPT ![frame[t].client].cwd =
                                Unwrap(Unwrap(CallOp(t).hook).work_dir)]
             /\ pc' = [pc EXCEPT ![t] = "exec_run"]
             /\ UNCHANGED <<config_lock, client_cache, local, call, frame, result, calls>>
        ELSE Finish(t, Err("TransportError"), session, client_cache)
    /\ UNCHANGED <<config, remote, script>>

\* Exec, lines 463 and 466: client.exec(&hook.shell)?; exec returns the
\* command's exit status in its Ok value, which op_exec drops
ExecRun(t) ==
    /\ pc[t] = "exec_run"
    /\ LET hook == Unwrap(CallOp(t).hook) IN
       \E ok \in BOOLEAN :
        IF ~ok THEN Finish(t, Err("TransportError"), session, client_cache)
        ELSE IF IsSome(hook.work_dir)
        THEN /\ pc' = [pc EXCEPT ![t] = "exec_restore"]
             /\ frame' = [frame EXCEPT ![t].exit = Some(exit_status(hook.shell))]
             /\ UNCHANGED <<config_lock, client_cache, session, local, call, result, calls>>
        ELSE Finish(t, [Ok("Executed hook") EXCEPT !.exit = Some(exit_status(hook.shell))],
                    session, client_cache)
    /\ UNCHANGED <<config, remote, script>>

\* Exec, lines 464 and 469: client.change_dir(&old_workdir)?
ExecRestore(t) ==
    /\ pc[t] = "exec_restore"
    /\ \E ok \in BOOLEAN :
        IF ok
        THEN Finish(t, [Ok("Executed hook") EXCEPT !.exit = frame[t].exit],
                    [session EXCEPT ![frame[t].client].cwd = Unwrap(frame[t].old_workdir)],
                    client_cache)
        ELSE Finish(t, [Err("TransportError") EXCEPT !.exit = frame[t].exit],
                    session, client_cache)
    /\ UNCHANGED <<config, remote, script>>

\* plan, lines 303-361: config.lock().await, then no further suspension
PlanLock(t) ==
    /\ pc[t] = "plan_lock"
    /\ config_lock = NoTask
    /\ Finish(t, plan(config, call[t].addr, call[t].current, call[t].desired),
              session, client_cache)
    /\ UNCHANGED <<config, remote, script>>

\* filter, lines 217-230
FilterLock(t) ==
    /\ pc[t] = "filter_lock"
    /\ config_lock = NoTask
    /\ Finish(t, filter(config, call[t].addr), session, client_cache)
    /\ UNCHANGED <<config, remote, script>>

\* list, line 236: config.lock().await.clone(); the guard is a temporary.  The
\* loop takes the hosts in the HashMap's order, which is any order.
ListLock(t) ==
    /\ pc[t] = "list_lock"
    /\ config_lock = NoTask
    /\ IF DOMAIN config.hosts = {}
       THEN /\ Finish(t, Ok(<<>>), session, client_cache)
            /\ UNCHANGED <<config, remote>>
       ELSE \E h \in DOMAIN config.hosts :
                Goto(t, "gc_contains",
                     [frame[t] EXCEPT !.snapshot = config, !.hostname = h,
                                      !.todo = DOMAIN config.hosts \ {h}])
    /\ UNCHANGED script

\* list, lines 246-273 for one host: the remote calls of list_recursive and
\* remote_file_exists under the session's mutex, failing at any of them or at
\* none; the guard and the Arc are dropped at the end of the iteration
ListScan(t) ==
    /\ pc[t] = "list_scan"
    /\ \E left \in FailPoints :
        LET h == frame[t].hostname
            run == list_mounts(remote[h], h, frame[t].snapshot.hosts[h].mounts, 1,
                               [StartRun(left) EXCEPT !.files = frame[t].results])
        IN  IF run.tag = "Err" THEN Finish(t, Err("TransportError"), session, client_cache)
            ELSE IF frame[t].todo = {}
            THEN Finish(t, Ok(run.files), session, client_cache)
            ELSE \E n \in frame[t].todo :
                    /\ pc' = [pc EXCEPT ![t] = "gc_contains"]
                    /\ frame' = [frame EXCEPT ![t].results = run.files, ![t].hostname = n,
                                              ![t].todo = @ \ {n},
                                              ![t].client = NoSession]
                    /\ session' = Collect(Unlocked(session, t), client_cache, frame')
                    /\ UNCHANGED <<config_lock, client_cache, local, call, result, calls>>
    /\ UNCHANGED <<config, remote, script>>

\* init, lines 196-206: the file is read and parsed (in Invoke), then
\* client_cache.clear()
InitClear(t) ==
    /\ pc[t] = "init_clear"
    /\ client_cache' = [h \in Hostnames |-> NoSession]
    /\ session' = Collect([s \in SessionIds |->
                              IF session[s] = DeadSession THEN DeadSession
                              ELSE [session[s] EXCEPT !.pre_clear = TRUE]],
                          client_cache', frame)
    /\ pc' = [pc EXCEPT ![t] = "init_lock"]
    /\ UNCHANGED <<config, config_lock, remote, local, call, frame, result, script, calls>>

\* init, line 207: *self.config.lock().await = config
InitLock(t) ==
    /\ pc[t] = "init_lock"
    /\ config_lock = NoTask
    /\ config' = frame[t].new_config
    /\ pc' = [pc EXCEPT ![t] = "idle"]
    /\ result' = [result EXCEPT ![t] = Ok("()")]
    /\ frame' = [u \in Tasks |->
                    IF u = t THEN NoFrame
                    ELSE IF pc[u] = "idle" THEN frame[u]
                    ELSE [frame[u] EXCEPT !.pre_swap = TRUE]]
    /\ session' = [s \in SessionIds |->
                      IF session[s] = DeadSession THEN DeadSession
                      ELSE [session[s] EXCEPT !.pre_swap = TRUE]]
    /\ UNCHANGED <<config_lock, client_cache, remote, local, call, script, calls>>

(***************************************************************************)
(* Spec: concurrent callers.  The connector starts as Connector::new       *)
(* leaves it: the default (empty) configuration and an empty cache.        *)
(***************************************************************************)
EtcDir == <<RootDir, "etc">>
CronDir == <<RootDir, "etc", "cron">>
MotdPath == <<"etc", "motd">>
NoMountFields == [dirs |-> None, files |-> None, globs |-> None, uid |-> None, gid |-> None,
                  mode |-> None, pre_hooks |-> None, post_hooks |-> None]
MountEtc == [NoMountFields EXCEPT !.dirs = Some(<<EtcDir>>), !.uid = Some("root"),
                                  !.mode = Some("0644")]
\* two contents of remotefs/config.ron: the second drops host X and changes
\* host Y's connection parameters
ConfigXY == [hosts |-> [h \in {"X", "Y"} |-> [params |-> "key1", mounts |-> <<MountEtc>>]]]
ConfigY == [hosts |-> [h \in {"Y"} |-> [params |-> "key2", mounts |-> <<MountEtc>>]]]

Addr(h, rel) == to_path_buf([hostname |-> h, path |-> rel])
SpecAddrs == {Addr(h, MotdPath) : h \in Hostnames}
SpecOps == {op_to_string(o) : o \in {OpCopy, OpDelete, OpExec(HookTrue), OpExec(HookFalseIn)}}
\* what the callers of Spec call: every handler, on either host, and each of
\* the ways a handler returns before it touches shared state
SpecCalls ==
    {[NoCall EXCEPT !.fn = "init", !.cfg_file = f] : f \in {None, Some(Unparsable), Some(ConfigXY), Some(ConfigY)}}
    \cup {[NoCall EXCEPT !.fn = "get", !.addr = a] : a \in SpecAddrs \cup {ForeignAddr}}
    \cup {[NoCall EXCEPT !.fn = "filter", !.addr = a] : a \in SpecAddrs \cup {ForeignAddr}}
    \cup {[NoCall EXCEPT !.fn = "list"]}
    \cup {[NoCall EXCEPT !.fn = "plan", !.addr = a, !.desired = Some(Bytes1)] :
            a \in SpecAddrs \cup {ForeignAddr}}
    \cup {[NoCall EXCEPT !.fn = "op_exec", !.addr = a, !.op = o] : a \in SpecAddrs, o \in SpecOps}
    \cup {[NoCall EXCEPT !.fn = "op_exec", !.addr = ForeignAddr, !.op = op_to_string(OpCopy)],
          [NoCall EXCEPT !.fn = "op_exec", !.addr = Addr("X", MotdPath), !.op = Garbage]}

NoFiles == [p \in RemotePaths |-> None]
PlainFile(bytes) == [contents |-> bytes, uid |-> None, gid |-> None, mode |-> None]

InitConnector ==
    /\ config = EmptyConfig
    /\ config_lock = NoTask
    /\ client_cache = [h \in Hostnames |-> NoSession]
    /\ session = [s \in SessionIds |-> DeadSession]
    /\ pc = [t \in Tasks |-> "idle"]
    /\ call = [t \in Tasks |-> NoCall]
    /\ frame = [t \in Tasks |-> NoFrame]
    /\ result = [t \in Tasks |-> NoResult]
    /\ calls = 0

Init ==
    /\ InitConnector
    /\ remote = [h \in Hostnames |->
                    IF h = "X" THEN [NoFiles EXCEPT ![join(<<RootDir>>, MotdPath)] =
                                                        Some(PlainFile(Bytes2))]
                    ELSE NoFiles]
    /\ local = [p \in LogicalPaths |->
                    IF strip_prefix(p, <<p[1], p[2]>>) = MotdPath THEN Some(Bytes1) ELSE None]
    /\ script = NoScript

Call(t) ==
    /\ calls < MaxCalls
    /\ \E c \in SpecCalls : Invoke(t, c)
    /\ UNCHANGED script

Next ==
    \E t \in Tasks :
        \/ Call(t)
        \/ GcContains(t) \/ GcGet(t) \/ GcLock(t) \/ GcConnect(t) \/ GcReget(t)
        \/ ClientLock(t)
        \/ GetExists(t) \/ GetOpen(t)
        \/ OpLock(t) \/ CopyCreate(t) \/ CopyWrite(t) \/ DeleteRemove(t)
        \/ ExecPwd(t) \/ ExecCd(t) \/ ExecRun(t) \/ ExecRestore(t)
        \/ PlanLock(t) \/ FilterLock(t)
        \/ ListLock(t) \/ ListScan(t)
        \/ InitClear(t) \/ InitLock(t)

Spec == Init /\ [][Next]_vars

(***************************************************************************)
(* SeqSpec: one caller reconciles one address.  It loads a configuration   *)
(* (init), may read the address first (get), plans, applies the plan's ops *)
(* in list order while each succeeds, and reads the address again.         *)
(***************************************************************************)
MountA == [NoMountFields EXCEPT !.dirs = Some(<<EtcDir>>), !.uid = Some("root"),
                                !.mode = Some("0644"), !.pre_hooks = Some(<<HookTrue>>),
                                !.post_hooks = Some(<<HookFalseIgn>>)]
MountB == [NoMountFields EXCEPT !.dirs = Some(<<CronDir>>), !.uid = Some("cron"),
                                !.gid = Some("cron"), !.pre_hooks = Some(<<HookFalseIn>>)]
MountC == [NoMountFields EXCEPT !.files = Some(<<Append(CronDir, "daily")>>),
                                !.uid = Some("www"), !.mode = Some("0600"),
                                !.post_hooks = Some(<<HookTrue>>)]
\* a mount with neither files nor dirs
MountD == [NoMountFields EXCEPT !.uid = Some("nobody"), !.pre_hooks = Some(<<HookFalseIgn>>)]
MountCatalogue == {MountA, MountB, MountC, MountD}
MountLists == UNION {[1..n -> MountCatalogue] : n \in 0..MaxMounts}

SeqTask == "t1"
SeqConfigFiles ==
    {Some(ConfigY)}
    \cup {Some([hosts |-> [h \in {"X"} |-> [params |-> "key1", mounts |-> ml]]]) :
            ml \in MountLists}
SeqAddrs == {Addr("X", r) : r \in RelPaths} \cup {ForeignAddr}
SeqContents == {None, Some(Bytes1), Some(Bytes2)}

SeqInit ==
    /\ InitConnector
    /\ \E f \in SeqConfigFiles, a \in SeqAddrs, c \in SeqContents, d \in SeqContents :
        script = [NoScript EXCEPT !.stage = "init", !.cfg_file = f, !.addr = a,
                                  !.current = c, !.desired = d]
    /\ \E file \in {None, Some(PlainFile(Bytes1))} :
        remote = [h \in Hostnames |->
                    [p \in RemotePaths |->
                        IF h = "X" /\ IsSome(from_path(script.addr))
                           /\ p = join(<<RootDir>>, Unwrap(from_path(script.addr)).path)
                        THEN file ELSE None]]
    /\ \E bytes \in {None, Some(Bytes1)} :
        local = [p \in LogicalPaths |-> IF p = script.addr THEN bytes ELSE None]

\* the caller loads the configuration
SeqLoad ==
    /\ script.stage = "init"
    /\ Invoke(SeqTask, [NoCall EXCEPT !.fn = "init", !.cfg_file = script.cfg_file])
    /\ script' = [script EXCEPT !.stage = "loaded"]

\* the caller reads the address before it plans
SeqRead ==
    /\ script.stage = "loaded"
    /\ Invoke(SeqTask, [NoCall EXCEPT !.fn = "get", !.addr = script.addr])
    /\ script' = [script EXCEPT !.stage = "read"]

SeqPlan ==
    /\ script.stage \in {"loaded", "read"}
    /\ Invoke(SeqTask, [NoCall EXCEPT !.fn = "plan", !.addr = script.addr,
                                      !.current = script.current,
                                      !.desired = script.desired])
    /\ script' = [script EXCEPT !.stage = "planned"]

\* the caller takes plan's answer
SeqPlanned ==
    /\ script.stage = "planned"
    /\ pc[SeqTask] = "idle"
    /\ script' = IF result[SeqTask].tag = "Ok"
                 THEN [script EXCEPT !.stage = "apply", !.plan = result[SeqTask].value]
                 ELSE [script EXCEPT !.stage = "failed"]
    /\ UNCHANGED <<config, config_lock, client_cache, session, remote, local,
                   pc, call, frame, result, calls>>

\* the caller applies the next op of the plan
SeqApply ==
    /\ script.stage = "apply"
    /\ script.idx <= Len(script.plan)
    /\ Invoke(SeqTask, [NoCall EXCEPT !.fn = "op_exec", !.addr = script.addr,
                                      !.op = op_to_string(script.plan[script.idx].op)])
    /\ script' = [script EXCEPT !.stage = "applying"]

\* the caller takes op_exec's answer: on with the plan, or stop at the error
SeqApplied ==
    /\ script.stage = "applying"
    /\ pc[SeqTask] = "idle"
    /\ script' = IF result[SeqTask].tag = "Ok"
                 THEN [script EXCEPT !.stage = "apply", !.idx = @ + 1]
                 ELSE [script EXCEPT !.stage = "failed"]
    /\ UNCHANGED <<config, config_lock, client_cache, session, remote, local,
                   pc, call, frame, result, calls>>

\* every op is applied: the caller reads the address again
SeqCheck ==
    /\ script.stage = "apply"
    /\ script.idx > Len(script.plan)
    /\ Invoke(SeqTask, [NoCall EXCEPT !.fn = "get", !.addr = script.addr])
    /\ script' = [script EXCEPT !.stage = "checking"]

SeqDone ==
    /\ script.stage = "checking"
    /\ pc[SeqTask] = "idle"
    /\ script' = [script EXCEPT !.stage = "done", !.final = result[SeqTask]]
    /\ UNCHANGED <<config, config_lock, client_cache, session, remote, local,
                   pc, call, frame, result, calls>>

SeqNext ==
    \/ SeqLoad \/ SeqRead \/ SeqPlan \/ SeqPlanned \/ SeqApply \/ SeqApplied
    \/ SeqCheck \/ SeqDone
    \/ InitClear(SeqTask) \/ InitLock(SeqTask)
    \/ GcContains(SeqTask) \/ GcGet(SeqTask) \/ GcLock(SeqTask) \/ GcConnect(SeqTask)
    \/ GcReget(SeqTask) \/ ClientLock(SeqTask)
    \/ GetExists(SeqTask) \/ GetOpen(SeqTask)
    \/ PlanLock(SeqTask)
    \/ OpLock(SeqTask) \/ CopyCreate(SeqTask) \/ CopyWrite(SeqTask) \/ DeleteRemove(SeqTask)
    \/ ExecPwd(SeqTask) \/ ExecCd(SeqTask) \/ ExecRun(SeqTask) \/ ExecRestore(SeqTask)

SeqSpec == SeqInit /\ [][SeqNext]_vars

\* the caller's only task is always scheduled
FairSeqSpec == SeqSpec /\ WF_vars(SeqNext)

(***************************************************************************)
(* What the claims speak of.                                               *)
(***************************************************************************)
\* the address SeqSpec's caller reconciles, decoded
SeqDecoded == IsSome(from_path(script.addr))
SeqHostname == Unwrap(from_path(script.addr)).hostname
SeqRemotePath == join(<<RootDir>>, Unwrap(from_path(script.addr)).path)
SeqKnownHost == SeqDecoded /\ SeqHostname \in DOMAIN config.hosts
\* plan has answered the caller / op_exec has answered the caller
SeqPlanAnswered == script.stage = "planned" /\ pc[SeqTask] = "idle"
SeqOpAnswered == script.stage = "applying" /\ pc[SeqTask] = "idle"
SeqOp == script.plan[script.idx].op

Range(seq) == {seq[i] : i \in 1..Len(seq)}
Count(ops, kind) == Cardinality({i \in 1..Len(ops) : ops[i].op.kind = kind})
\* the hooks of a plan's Exec ops, in list order
IsExec(e) == e.op.kind = "Exec"
HooksOf(ops) == LET ex == SelectSeq(ops, IsExec) IN [i \in 1..Len(ex) |-> Unwrap(ex[i].op.hook)]

\* spec 4.2: the path is one of the mount's files, or is or lies below one of
\* its directories
Governs(mount, path) ==
    \/ IsSome(mount.files) /\ path \in Range(Unwrap(mount.files))
    \/ /\ IsSome(mount.dirs)
       /\ \E dir \in Range(Unwrap(mount.dirs)) :
            Len(dir) <= Len(path) /\ SubSeq(path, 1, Len(dir)) = dir
\* spec 4.5: the last mount in declaration order that governs the path
LastGoverning(mounts, path) ==
    LET at == {i \in 1..Len(mounts) : Governs(mounts[i], path)}
    IN  IF at = {} THEN None
        ELSE Some(mounts[CHOOSE i \in at : \A j \in at : j <= i])

\* a task is inside a remote call on its session
SessionCalls == {"get_exists", "get_open", "list_scan", "copy_create", "copy_write",
                 "delete_remove", "exec_pwd", "exec_cd", "exec_run", "exec_restore"}
InRemoteCall(t) == pc[t] \in SessionCalls
\* a task is in remote I/O: a call on its session, or connect
InRemoteIO(t) == InRemoteCall(t) \/ pc[t] = "gc_connect"
Live(s) == session[s] # DeadSession
ReloadInProgress == \E t \in Tasks : pc[t] \in {"init_clear", "init_lock"}

(***************************************************************************)
(* The claims.                                                             *)
(***************************************************************************)
\* the local source file holds the desired content
LocalIsDesired == IsSome(script.desired) => local_file(local, script.addr) = script.desired

\* the transport failed the caller's last get
FinalReadBroke == script.final.tag = "Err" /\ script.final.value = "TransportError"

\* C1: once every op of plan(addr, current, desired) has been applied in list
\* order without error, with the local source file holding the desired
\* content, get(addr) (its remote calls answered) returns the desired content when desired is present,
\* and None when desired is absent and current was present.
C1_PlanConverges ==
    (script.stage = "done" /\ LocalIsDesired /\ ~FinalReadBroke) =>
        /\ IsSome(script.desired) => script.final = Ok(Some(Unwrap(script.desired)))
        /\ (~IsSome(script.desired) /\ IsSome(script.current)) => script.final = Ok(None)

\* C1 for the hosts of the configuration, where it holds
C1_KnownHostConverges == SeqKnownHost => C1_PlanConverges

\* a plan with a core op was applied to its end on a known host, and the
\* address read back
C1_Applied ==
    /\ script.stage = "done" /\ SeqKnownHost /\ LocalIsDesired
    /\ Len(script.plan) > 1
    /\ script.final = Ok(script.desired)

\* C8: an Exec op whose hook exits nonzero fails when the hook's ignore_error
\* is false and succeeds when it is true (no transport error in either case).
C8_HookExitDecides ==
    (/\ SeqOpAnswered
     /\ SeqOp.kind = "Exec"
     /\ result[SeqTask].exit = Some("nonzero")
     /\ result[SeqTask].value # "TransportError") =>
        IF Unwrap(SeqOp.hook).ignore_error THEN result[SeqTask].tag = "Ok"
        ELSE result[SeqTask].tag = "Err"

\* an Exec op whose hook has ignore_error = false exited nonzero
C8_FailedHookRan ==
    /\ SeqOpAnswered
    /\ SeqOp.kind = "Exec"
    /\ ~Unwrap(SeqOp.hook).ignore_error
    /\ result[SeqTask].exit = Some("nonzero")

\* C9: the policy used for a path is that of the last mount in declaration
\* order that governs it, none if no mount does: a plan with a core op takes
\* its hooks from that mount, and Copy its uid, gid and mode.
C9_LastGoverningMountWins ==
    /\ (SeqPlanAnswered /\ SeqKnownHost /\ result[SeqTask].tag = "Ok"
        /\ result[SeqTask].value # <<>>) =>
            LET policy == LastGoverning(config.hosts[SeqHostname].mounts, SeqRemotePath)
            IN  HooksOf(result[SeqTask].value) =
                    IF IsSome(policy)
                    THEN unwrap_or_default(Unwrap(policy).pre_hooks)
                         \o unwrap_or_default(Unwrap(policy).post_hooks)
                    ELSE <<>>
    /\ (SeqOpAnswered /\ SeqOp.kind = "Copy" /\ result[SeqTask].tag = "Ok") =>
            LET policy == LastGoverning(config.hosts[SeqHostname].mounts, SeqRemotePath)
                file == Unwrap(remote[SeqHostname][SeqRemotePath])
            IN  <<file.uid, file.gid, file.mode>> =
                    IF IsSome(policy)
                    THEN <<Unwrap(policy).uid, Unwrap(policy).gid, Unwrap(policy).mode>>
                    ELSE <<None, None, None>>

\* mounts [A(dir=/etc), B(dir=/etc/cron)]: /etc/cron/daily was copied with B's policy
C9_CronDailyCopied ==
    /\ SeqOpAnswered /\ SeqOp.kind = "Copy" /\ result[SeqTask].tag = "Ok"
    /\ config.hosts[SeqHostname].mounts = <<MountA, MountB>>
    /\ SeqRemotePath = Append(CronDir, "daily")
    /\ Unwrap(remote[SeqHostname][SeqRemotePath]).uid = MountB.uid
    /\ HooksOf(script.plan) = <<HookFalseIn>>

\* C10: for a known host, plan with (None, None) and no configured hooks is
\* empty; (Some, None) has exactly one Delete and no Copy; (None, Some) and
\* (Some, Some) have exactly one Copy and no Delete, whatever the bytes.
C10_PresenceDrivenPlan ==
    (SeqPlanAnswered /\ SeqKnownHost) =>
        LET ops == result[SeqTask].value
            policy == LastGoverning(config.hosts[SeqHostname].mounts, SeqRemotePath)
            hooked == /\ IsSome(policy)
                      /\ unwrap_or_default(Unwrap(policy).pre_hooks)
                         \o unwrap_or_default(Unwrap(policy).post_hooks) # <<>>
        IN  /\ result[SeqTask].tag = "Ok"
            /\ (~IsSome(script.current) /\ ~IsSome(script.desired) /\ ~hooked) => ops = <<>>
            /\ (IsSome(script.current) /\ ~IsSome(script.desired)) =>
                    Count(ops, "Delete") = 1 /\ Count(ops, "Copy") = 0
            /\ IsSome(script.desired) =>
                    Count(ops, "Copy") = 1 /\ Count(ops, "Delete") = 0

\* plan answered (Some, Some) with equal bytes on a known host
C10_PlannedEqualBytes ==
    /\ SeqPlanAnswered /\ SeqKnownHost
    /\ IsSome(script.current) /\ script.current = script.desired
    /\ Count(result[SeqTask].value, "Copy") = 1

\* C2: under fair scheduling, with a transport whose calls return, every
\* handler a caller invokes eventually returns; an apply for a host with no
\* cached session does not wait for ever for the configuration mutex it holds.
C2_EveryCallReturns == \A t \in Tasks : (pc[t] # "idle") ~> (pc[t] = "idle")

\* op_exec waits in get_client for the configuration mutex its own guard holds
C2_ApplyWaitsForItself ==
    \E t \in Tasks : pc[t] = "gc_lock" /\ config_lock = t /\ call[t].fn = "op_exec"

\* C3: no two operations on the same hostname are ever inside a remote call
\* for that host at the same time.
C3_OneRemoteCallPerHost ==
    \A t, u \in Tasks :
        (t # u /\ InRemoteCall(t) /\ InRemoteCall(u)) => frame[t].hostname # frame[u].hostname

\* what the session mutex does give: no two tasks are inside a remote call
\* on the same session
SessionCallsExclusive ==
    \A t, u \in Tasks :
        (t # u /\ InRemoteCall(t) /\ InRemoteCall(u)) => frame[t].client # frame[u].client

\* C4: between two reloads at most one session is established per hostname:
\* the acquires for one hostname all hold the same session handle.
C4_OneSessionPerHost ==
    \A s1, s2 \in SessionIds :
        (/\ Live(s1) /\ Live(s2) /\ session[s1].host = session[s2].host
         /\ ~session[s1].pre_clear /\ ~session[s2].pre_clear) => s1 = s2

\* C5: once a reload that removes host X is complete, every later acquire of
\* X fails with a configuration error, and none returns a session made from
\* the configuration of before the reload.
C5_ReloadIsolation ==
    \A t \in Tasks :
        (pc[t] # "idle" /\ ~frame[t].pre_swap /\ frame[t].client # NoSession) =>
            /\ frame[t].hostname \in DOMAIN config.hosts
            /\ ~session[frame[t].client].pre_swap

\* C6: whenever no reload is in progress, every session of the cache was
\* established with the parameters the current configuration holds for its
\* hostname.
C6_CacheMatchesConfig ==
    ~ReloadInProgress =>
        \A h \in Hostnames :
            client_cache[h] # NoSession =>
                /\ h \in DOMAIN config.hosts
                /\ session[client_cache[h]].params = config.hosts[h].params

\* the host a task's call is addressed to, for the handlers that take an address
Addressed(t) == call[t].fn \in {"get", "plan", "filter", "op_exec"} /\ IsSome(from_path(call[t].addr))
TargetHost(t) == Unwrap(from_path(call[t].addr)).hostname
WaitsForConfig(t) == pc[t] \in {"op_lock", "plan_lock", "filter_lock", "gc_lock"}

\* C7: operations on different hosts do not block each other: none waits for
\* a lock that an operation on another host holds through its remote I/O.
C7_NoCrossHostBlocking ==
    \A t, u \in Tasks :
        (/\ t # u /\ Addressed(t) /\ Addressed(u)
         /\ WaitsForConfig(t) /\ config_lock = u /\ InRemoteCall(u)) =>
            TargetHost(t) = TargetHost(u)

\* what the configuration mutex of op_exec excludes: two applies inside
\* their remote calls at once, whatever their hosts
AppliesNeverOverlap ==
    \A t, u \in Tasks :
        (t # u /\ call[t].fn = "op_exec" /\ call[u].fn = "op_exec") =>
            ~(InRemoteCall(t) /\ InRemoteCall(u))

\* the callers' tasks are scheduled fairly, and the mutexes are fair (tokio's
\* Mutex is FIFO): a task that can take a step again and again takes it
Step(t) ==
    \/ GcContains(t) \/ GcGet(t) \/ GcLock(t) \/ GcConnect(t) \/ GcReget(t)
    \/ ClientLock(t) \/ GetExists(t) \/ GetOpen(t)
    \/ OpLock(t) \/ CopyCreate(t) \/ CopyWrite(t) \/ DeleteRemove(t)
    \/ ExecPwd(t) \/ ExecCd(t) \/ ExecRun(t) \/ ExecRestore(t)
    \/ PlanLock(t) \/ FilterLock(t) \/ ListLock(t) \/ ListScan(t)
    \/ InitClear(t) \/ InitLock(t)
FairSpec == Spec /\ \A t \in Tasks : SF_vars(Step(t))

(***************************************************************************)
(* The planner's output and the executor's working directory.             *)
(***************************************************************************)
\* the ops of a plan, without their messages
OpsOf(ops) == [i \in 1..Len(ops) |-> ops[i].op]
\* one Exec per hook, in the hooks' order
ExecsOf(hooks) == [i \in 1..Len(hooks) |-> OpExec(hooks[i])]

ExecInFlight(s) ==
    \E t \in Tasks : frame[t].client = s /\ pc[t] \in {"exec_cd", "exec_run", "exec_restore"}

\* C12: after an Exec op for a hook with a work_dir finishes, whether the hook
\* command succeeded or failed, the session's working directory is what it
\* was before the op: with no Exec op in flight on it, a session's working
\* directory is its initial one.
C12_WorkdirNeverDrifts ==
    \A s \in SessionIds : (Live(s) /\ ~ExecInFlight(s)) => session[s].cwd = HomeDir

\* a hook with a work_dir ran, exited nonzero, and its Exec op returned
C12_HookRanInWorkdir ==
    \E t \in Tasks :
        /\ pc[t] = "idle" /\ call[t].fn = "op_exec" /\ result[t].tag = "Ok"
        /\ result[t].exit = Some("nonzero")
        /\ IsSome(Unwrap(CallOp(t).hook).work_dir)

\* what the code does give: an Exec op that returns Ok leaves the working
\* directory as it found it
ExecOkRestoresWorkdir ==
    [][\A t \in Tasks :
        (/\ pc[t] \in {"exec_run", "exec_restore"} /\ pc'[t] = "idle"
         /\ result'[t].tag = "Ok" /\ session'[frame[t].client] # DeadSession) =>
            session'[frame[t].client].cwd =
                IF IsSome(frame[t].old_workdir) THEN Unwrap(frame[t].old_workdir)
                ELSE session[frame[t].client].cwd]_vars

(***************************************************************************)
(* Hosts the configuration does not hold, and failed connections.         *)
(***************************************************************************)
\* SeqSpec's caller has the answer of a get, plan or apply
SeqAnswered ==
    /\ pc[SeqTask] = "idle" /\ call[SeqTask].fn \in {"get", "plan", "op_exec"}
    /\ result[SeqTask] # NoResult

\* C13: a get, plan or apply addressed to a hostname that is absent from the
\* current configuration returns an error, makes no remote call (no session
\* is established) and leaves the cache and the configuration as they were.
C13_UnknownHostFails ==
    (SeqAnswered /\ SeqDecoded /\ ~SeqKnownHost) =>
        /\ result[SeqTask].tag = "Err"
        /\ \A h \in Hostnames : client_cache[h] = NoSession
        /\ \A s \in SessionIds : ~Live(s)
        /\ config = Unwrap(script.cfg_file)

\* get answered a host the configuration does not hold with ConfigError
C13_UnknownHostRead ==
    /\ SeqAnswered /\ SeqDecoded /\ ~SeqKnownHost
    /\ call[SeqTask].fn = "get" /\ result[SeqTask] = Err("ConfigError")

\* what holds for get: it fails on a host the configuration does not hold
GetUnknownHostFails ==
    (SeqAnswered /\ SeqDecoded /\ ~SeqKnownHost /\ call[SeqTask].fn = "get") =>
        /\ result[SeqTask] = Err("ConfigError")
        /\ \A h \in Hostnames : client_cache[h] = NoSession
        /\ \A s \in SessionIds : ~Live(s)

\* C14: when connection establishment fails during acquire, the operation
\* fails and the cache has no entry for that hostname afterwards (no session
\* of the host is left), so that a later acquire connects afresh.
C14_FailedConnectCachesNothing ==
    [][(pc[SeqTask] = "gc_connect" /\ pc'[SeqTask] = "idle") =>
            /\ result'[SeqTask] = Err("TransportError")
            /\ client_cache'[frame[SeqTask].hostname] = NoSession
            /\ \A s \in SessionIds : session'[s].host # frame[SeqTask].hostname]_vars

\* a get failed in connect: it returned the transport's error and the host
\* has no cache entry
C14_ConnectFailed ==
    /\ SeqAnswered /\ SeqKnownHost /\ call[SeqTask].fn = "get"
    /\ result[SeqTask] = Err("TransportError")
    /\ client_cache[SeqHostname] = NoSession

\* under concurrent callers: a failing connect leaves the cache as it was and
\* makes no session, and every cache entry is a session connected to its host
FailedConnectAddsNothing ==
    /\ [][\A t \in Tasks :
            (pc[t] = "gc_connect" /\ pc'[t] = "idle") =>
                /\ result'[t] = Err("TransportError")
                /\ client_cache' = client_cache
                /\ \A s \in SessionIds : session[s] = DeadSession => session'[s] = DeadSession]_vars
    /\ [](\A h \in Hostnames :
            client_cache[h] # NoSession =>
                Live(client_cache[h]) /\ session[client_cache[h]].host = h)

(***************************************************************************)
(* CodecSpec: a caller encodes a RemoteFsPath and decodes the result, or   *)
(* decodes a logical path it was given.                                    *)
(***************************************************************************)
\* longest remote path CodecSpec encodes, in segments
MaxSegments == 2

\* hostnames without a path separator, the empty one and "." among them
CodecHosts == {"X", "", ".", ".."}
CodecPaths == UNION {[1..n -> {"etc", "motd", ".", ".."}] : n \in 0..MaxSegments}
\* logical paths, relative and absolute, of this namespace and of others
CodecSegments == {"remotefs", "aws", "X", "."}
CodecRelative == UNION {[1..n -> CodecSegments] : n \in 0..(MaxSegments + 1)}
CodecLogical == CodecRelative \cup {<<RootDir>> \o l : l \in CodecRelative}

CodecInit ==
    /\ InitConnector
    /\ remote = [h \in Hostnames |-> NoFiles]
    /\ local = [p \in LogicalPaths |-> None]
    /\ script = NoScript

CodecEncode ==
    /\ script.stage = "off"
    /\ \E h \in CodecHosts, p \in CodecPaths :
        LET addr == [hostname |-> h, path |-> p]
        IN  script' = [script EXCEPT !.stage = "encoded", !.source = Some(addr),
                                     !.addr = to_path_buf(addr)]
    /\ UNCHANGED <<config, config_lock, client_cache, session, remote, local,
                   pc, call, frame, result, calls>>

CodecGiven ==
    /\ script.stage = "off"
    /\ \E l \in CodecLogical : script' = [script EXCEPT !.stage = "given", !.addr = l]
    /\ UNCHANGED <<config, config_lock, client_cache, session, remote, local,
                   pc, call, frame, result, calls>>

CodecDecode ==
    /\ script.stage \in {"encoded", "given"}
    /\ script' = [script EXCEPT !.stage = "decoded", !.final = Ok(from_path(script.addr))]
    /\ UNCHANGED <<config, config_lock, client_cache, session, remote, local,
                   pc, call, frame, result, calls>>

CodecNext == CodecEncode \/ CodecGiven \/ CodecDecode

CodecSpec == CodecInit /\ [][CodecNext]_vars

\* the segments of a logical path, as the spec splits it
Segments(l) == IF is_absolute(l) THEN Tail(l) ELSE l
\* two RemoteFsPaths are equal: same hostname, and paths equal as Path's ==
\* has it
SameAddr(a, b) == a.hostname = b.hostname /\ components(a.path) = components(b.path)

\* C15: decode(encode(h, p)) = Some((h, p)) for every hostname h without path
\* separators and every relative path p; and decode returns None, not an
\* error, for every logical path whose first segment is not "remotefs" or
\* that has no second segment.
C15_CodecRoundTrip ==
    script.stage = "decoded" =>
        /\ IsSome(script.source) =>
                /\ script.final.tag = "Ok" /\ IsSome(script.final.value)
                /\ SameAddr(Unwrap(script.final.value), Unwrap(script.source))
        /\ (~IsSome(script.source)
            /\ (Len(Segments(script.addr)) < 2 \/ Segments(script.addr)[1] # "remotefs")) =>
                script.final = Ok(None)

\* a hostname and a path that Path::components() leaves as they are
CleanSource ==
    /\ IsSome(script.source)
    /\ Unwrap(script.source).hostname \notin {"", "."}
    /\ (Unwrap(script.source).path = <<>> \/ Head(Unwrap(script.source).path) # ".")

\* what the codec does give: the round trip of such a hostname and path, and
\* None for the other namespaces
CleanRoundTrip ==
    script.stage = "decoded" =>
        /\ CleanSource =>
                /\ script.final.tag = "Ok" /\ IsSome(script.final.value)
                /\ SameAddr(Unwrap(script.final.value), Unwrap(script.source))
        /\ (~IsSome(script.source)
            /\ (Len(Segments(script.addr)) < 2 \/ Segments(script.addr)[1] # "remotefs")) =>
                script.final = Ok(None)

\* (X, etc/motd) was encoded and decoded back
C15_PlainRoundTrip ==
    /\ script.stage = "decoded"
    /\ script.source = Some([hostname |-> "X", path |-> <<"etc", "motd">>])
    /\ script.final = Ok(script.source)

(***************************************************************************)
(* ListSpec: one caller loads a configuration and lists a scope, twice, or *)
(* walks one root directory of host X with list_recursive.  The remote     *)
(* trees, the mounts and the point where the transport fails vary.         *)
(***************************************************************************)
VarDir == <<RootDir, "var">>
\* a glob set that matches below /var only
VarGlobs == Some(<<VarDir>>)
ListMountCron == [NoMountFields EXCEPT !.dirs = Some(<<CronDir>>), !.globs = VarGlobs]
ListMountFiles == [NoMountFields EXCEPT
                      !.files = Some(<<join(<<RootDir>>, MotdPath), <<RootDir, "var", "x">>>>)]
\* /srv exists on no host
ListMountSrv == [NoMountFields EXCEPT !.dirs = Some(<<SrvDir, VarDir>>), !.globs = Some(<<>>)]
ListMountCatalogue == {MountEtc, ListMountCron, ListMountFiles, ListMountSrv}
ListMountLists == UNION {[1..n -> ListMountCatalogue] : n \in 0..MaxMounts}
ListConfigFiles ==
    {[hosts |-> [h \in hs |-> [params |-> "key1",
                               mounts |-> IF h = "X" THEN ml ELSE <<MountEtc>>]]] :
        hs \in {{"X"}, {"X", "Y"}}, ml \in ListMountLists}
\* the remote trees of host X: any of the remote paths is a file or is not
ListTrees ==
    {[p \in RemotePaths |-> IF p \in S THEN Some(PlainFile(Bytes1)) ELSE None] :
        S \in SUBSET RemotePaths}
ListScopes == {<<"remotefs">>, <<"remotefs", "X">>, <<"remotefs", "X", "etc", "cron">>}
\* directories list_recursive is started on (none of them is a file), and
\* the glob sets it is given
WalkRoots == {EtcDir, CronDir, VarDir, SrvDir}
GlobSets == {None, Some(<<>>), VarGlobs}

ListInit ==
    /\ InitConnector
    /\ \E f \in ListConfigFiles, scope \in ListScopes :
        script = [NoScript EXCEPT !.stage = "start", !.cfg_file = Some(f), !.addr = scope]
    /\ \E tree \in ListTrees :
        remote = [h \in Hostnames |->
                    IF h = "X" THEN tree
                    ELSE [NoFiles EXCEPT ![join(<<RootDir>>, MotdPath)] = Some(PlainFile(Bytes2))]]
    /\ local = [p \in LogicalPaths |-> None]

\* the caller loads the configuration
ListLoad ==
    /\ script.stage = "start"
    /\ Invoke(SeqTask, [NoCall EXCEPT !.fn = "init", !.cfg_file = script.cfg_file])
    /\ script' = [script EXCEPT !.stage = "loaded"]

\* the caller lists its scope, a first and a second time
ListCall ==
    /\ script.stage \in {"loaded", "listed"}
    /\ pc[SeqTask] = "idle"
    /\ script.idx <= 2
    /\ Invoke(SeqTask, [NoCall EXCEPT !.fn = "list", !.addr = script.addr])
    /\ script' = [script EXCEPT !.stage = "listing", !.idx = @ + 1]

\* the caller takes list's answer
ListAnswered ==
    /\ script.stage = "listing"
    /\ pc[SeqTask] = "idle"
    /\ script' = [script EXCEPT !.stage = "listed", !.final = result[SeqTask]]
    /\ UNCHANGED <<config, config_lock, client_cache, session, remote, local,
                   pc, call, frame, result, calls>>

\* list_recursive on one root of host X's tree, with a glob set
WalkRoot ==
    /\ script.stage = "start"
    /\ \E root \in WalkRoots, globs \in GlobSets, left \in FailPoints :
        script' = [NoScript EXCEPT !.stage = "walked", !.addr = root, !.globs = globs,
                                   !.left = left,
                                   !.final = list_recursive(remote["X"], root, globs,
                                                            StartRun(left))]
    /\ UNCHANGED <<config, config_lock, client_cache, session, remote, local,
                   pc, call, frame, result, calls>>

ListNext ==
    \/ ListLoad \/ ListCall \/ ListAnswered \/ WalkRoot
    \/ InitClear(SeqTask) \/ InitLock(SeqTask)
    \/ ListLock(SeqTask) \/ ListScan(SeqTask)
    \/ GcContains(SeqTask) \/ GcGet(SeqTask) \/ GcLock(SeqTask) \/ GcConnect(SeqTask)
    \/ GcReget(SeqTask) \/ ClientLock(SeqTask)

ListSpec == ListInit /\ [][ListNext]_vars

\* list has answered the caller with a listing
ListReturned == script.stage = "listed" /\ script.final.tag = "Ok"
\* the remote path a listed address decodes to
RemoteOf(a) == join(<<RootDir>>, Unwrap(from_path(a)).path)
\* the address decodes to a host of the configuration and to a remote path
\* that one of the host's mounts governs
Tracked(a) ==
    /\ IsSome(from_path(a))
    /\ Unwrap(from_path(a)).hostname \in DOMAIN config.hosts
    /\ \E i \in 1..Len(config.hosts[Unwrap(from_path(a)).hostname].mounts) :
            Governs(config.hosts[Unwrap(from_path(a)).hostname].mounts[i], RemoteOf(a))

\* C16: list(scope) returns only logical addresses that lie under scope, and
\* every returned address decodes to a host of the current configuration and
\* a remote path governed by one of that host's mounts.
C16_ListedUnderScope ==
    ListReturned =>
        \A i \in 1..Len(script.final.value) :
            starts_with(script.final.value[i], script.addr) /\ Tracked(script.final.value[i])

\* list of scope remotefs/X answered with addresses
C16_ListedSome ==
    ListReturned /\ script.addr = <<"remotefs", "X">> /\ script.final.value # <<>>

\* what list does give: every address it returns is tracked
ListedAreTracked ==
    ListReturned => \A i \in 1..Len(script.final.value) : Tracked(script.final.value[i])

\* list_recursive has walked the root script.addr of host X's tree
Walked == script.stage = "walked"
\* the files of host X's tree strictly below a directory
FilesBelow(dir) ==
    {f \in DOMAIN remote["X"] : IsSome(remote["X"][f]) /\ starts_with(f, dir) /\ f # dir}

\* C17: list_recursive on a root directory that does not exist on the remote
\* returns an empty listing, not an error, after exactly one remote call, the
\* exists check on the root; list_dir is never called and nothing recurses.
C17_MissingRootOneCall ==
    (Walked /\ ~exists(remote["X"], script.addr) /\ answers(script.left)) =>
        /\ script.final.tag = "Ok"
        /\ script.final.files = <<>>
        /\ script.final.log = <<<<"exists", script.addr>>>>

\* /srv is walked on a tree that has files, none of them below /srv
C17_MissingRootWalked ==
    /\ Walked /\ script.addr = SrvDir /\ script.final.tag = "Ok"
    /\ script.final.log = <<<<"exists", SrvDir>>>>
    /\ FilesBelow(EtcDir) # {}

CountOf(seq, a) == Cardinality({i \in 1..Len(seq) : seq[i] = a})
\* the (mount, entry) pairs of host h that make list push the remote path p:
\* a dirs entry with the file p below it, a files entry p that exists
PushesOf(h, p) ==
    LET mounts == config.hosts[h].mounts
        fs == remote[h]
    IN  {e \in (1..Len(mounts)) \X {"dirs", "files"} \X (1..2) :
            LET entries == mounts[e[1]][e[2]] IN
            /\ IsSome(entries)
            /\ e[3] <= Len(Unwrap(entries))
            /\ IF e[2] = "dirs"
               THEN /\ IsSome(remote_file(fs, p))
                    /\ starts_with(p, Unwrap(entries)[e[3]])
                    /\ p # Unwrap(entries)[e[3]]
               ELSE Unwrap(entries)[e[3]] = p /\ exists(fs, p)}
\* the listing is the complete one: every path of every configured host as
\* often as its mounts push it, and nothing else
CompleteListing(value) ==
    /\ \A h \in DOMAIN config.hosts, p \in RemotePaths :
            CountOf(value, listed(h, p)) = Cardinality(PushesOf(h, p))
    /\ Range(value) \subseteq {listed(h, p) : h \in DOMAIN config.hosts, p \in RemotePaths}
\* the enumeration of the host list is scanning, when the transport fails
\* after left calls, and whether one of its remote calls failed
ScanRun(left) ==
    list_mounts(remote[frame[SeqTask].hostname], frame[SeqTask].hostname,
                frame[SeqTask].snapshot.hosts[frame[SeqTask].hostname].mounts, 1,
                StartRun(left))
CallFailed(left, run) == IsSome(left) /\ Len(run.log) > Unwrap(left)

\* C20: a remote-call failure at any point of the enumeration (the exists
\* check or list_dir, at any depth, or a file's exists check) makes list fail;
\* list never answers Ok with a partial listing.
C20_NoPartialListing ==
    /\ ListReturned => CompleteListing(script.final.value)
    /\ pc[SeqTask] = "list_scan" =>
            \A left \in FailPoints :
                CallFailed(left, ScanRun(left)) => ScanRun(left).tag = "Err"
    /\ (script.stage = "listed" /\ script.final.tag = "Err") =>
            script.final = Err("TransportError")

\* list failed though host X, the only one, was connected: a remote call of
\* the enumeration of a tree with nested files failed
C20_ScanFailed ==
    /\ script.stage = "listed" /\ script.final = Err("TransportError")
    /\ DOMAIN config.hosts = {"X"} /\ client_cache["X"] # NoSession
    /\ Len(config.hosts["X"].mounts) > 0
    /\ FilesBelow(CronDir) # {}

\* C18: whenever no caller-facing operation is in flight, neither the
\* configuration mutex nor the mutex of any session is held: every way out of
\* every operation, success and every error, releases what it acquired.  A
\* task that is not in an operation holds no mutex either.
C18_IdleHoldsNoMutex ==
    /\ (\A t \in Tasks : pc[t] = "idle") =>
            /\ config_lock = NoTask
            /\ \A s \in SessionIds : session[s].owner = NoTask
    /\ \A t \in Tasks :
            pc[t] = "idle" =>
                /\ config_lock # t
                /\ \A s \in SessionIds : session[s].owner # t

\* nothing is in flight after an op_exec failed in a remote call, which it
\* makes holding the configuration mutex and its session's mutex, and after
\* another operation returned a value
C18_IdleAfterFailedApply ==
    /\ \A t \in Tasks : pc[t] = "idle"
    /\ \E t \in Tasks : call[t].fn = "op_exec" /\ result[t] = Err("TransportError")
    /\ \E t \in Tasks : call[t].fn # "op_exec" /\ result[t].tag = "Ok"
    /\ \E s \in SessionIds : Live(s)

\* the core ops (Copy, Delete) of a plan
CoreOps(ops) == Count(ops, "Copy") + Count(ops, "Delete")
\* the hooks of the mount that governs the caller's address
SeqGoverningHooks ==
    LET policy == LastGoverning(config.hosts[SeqHostname].mounts, SeqRemotePath)
    IN  IF IsSome(policy)
        THEN unwrap_or_default(Unwrap(policy).pre_hooks)
             \o unwrap_or_default(Unwrap(policy).post_hooks)
        ELSE <<>>

\* C21: every non-empty plan contains exactly one core op (Copy or Delete);
\* plan with current = None and desired = None returns the empty list even
\* when the governing mount has pre-hooks or post-hooks, so no hook Exec is
\* planned without a Copy or a Delete.
C21_OneCoreOpOrEmpty ==
    (SeqPlanAnswered /\ result[SeqTask].tag = "Ok") =>
        /\ result[SeqTask].value = <<>> \/ CoreOps(result[SeqTask].value) = 1
        /\ (~IsSome(script.current) /\ ~IsSome(script.desired)) => result[SeqTask].value = <<>>
        /\ Count(result[SeqTask].value, "Exec") > 0 => CoreOps(result[SeqTask].value) = 1

\* plan answered (None, None) for an address whose governing mount has hooks
C21_NothingPlannedDespiteHooks ==
    /\ SeqPlanAnswered /\ SeqKnownHost
    /\ ~IsSome(script.current) /\ ~IsSome(script.desired)
    /\ SeqGoverningHooks # <<>>
    /\ result[SeqTask] = Ok(<<>>)

\* task t's init returns an error in this step / returns Ok in this step
ReloadFails(t) ==
    /\ pc[t] = "idle" /\ calls' = calls + 1
    /\ call'[t].fn = "init" /\ pc'[t] = "idle" /\ result'[t].tag = "Err"
ReloadSucceeds(t) == pc[t] = "init_lock" /\ pc'[t] = "idle"
\* the configurations a caller has loaded or may load, and the initial one
Snapshots == {EmptyConfig, ConfigXY, ConfigY}
EmptyCache == [h \in Hostnames |-> NoSession]

\* a failed reload changes neither the configuration nor the cache
FailedReloadChangesNothing ==
    [][\A t \in Tasks :
        ReloadFails(t) => (config' = config /\ client_cache' = client_cache)]_vars
\* the configuration is replaced as a whole: it is always one snapshot, and so
\* is the copy list works on
ConfigIsOneSnapshot ==
    /\ config \in Snapshots
    /\ \A t \in Tasks : frame[t].snapshot \in Snapshots
\* the step that completes a reload installs the new snapshot
ReloadInstallsSnapshot ==
    [][\A t \in Tasks : ReloadSucceeds(t) => config' = frame[t].new_config]_vars

\* C22: a reload that fails because the configuration file is missing or does
\* not parse leaves the configuration and the cache exactly as they were; a
\* reload that succeeds leaves the cache empty and the configuration replaced
\* as a whole, so that no reader sees a mix of two snapshots.
C22_ReloadAllOrNothing ==
    [][\A t \in Tasks :
        /\ ReloadFails(t) => (config' = config /\ client_cache' = client_cache)
        /\ ReloadSucceeds(t) =>
                /\ config' = frame[t].new_config
                /\ config' \in Snapshots
                /\ client_cache' = EmptyCache]_vars

\* a reload to the configuration without host X has returned Ok, and the
\* cache holds a session of X
C22_ReloadedWithSession ==
    /\ \E t \in Tasks : pc[t] = "idle" /\ call[t].fn = "init" /\ result[t] = Ok("()")
    /\ config = ConfigY
    /\ client_cache["X"] # NoSession

\* a reload failed on a file that does not parse, with a session in the cache
ReloadFailedToParse ==
    /\ \E t \in Tasks : pc[t] = "idle" /\ call[t].fn = "init" /\ result[t] = Err("ParseError")
    /\ client_cache # EmptyCache

=============================================================================
